---- MODULE Spec2Model ----
(***************************************************************************)
(* Project_1/jogos: the CSV-backed store of games (jogos), friends         *)
(* (amigos) and loans (emprestimos).  Each CSV file is a sequence of rows  *)
(* holding the text csv.DictWriter produced; every operation reads the     *)
(* whole file, transforms the rows in memory and rewrites the whole file.  *)
(***************************************************************************)
EXTENDS Integers, Sequences, FiniteSets, TLC

VARIABLES jogos, amigos, emprestimos, chamada, retorno, antes, db, trab

vars == <<jogos, amigos, emprestimos, chamada, retorno, antes, db, trab>>

\* Bounds of the model: ids of each entity kind range over 1..Max.
MaxJogo == 2
MaxAmigo == 1
MaxEmprestimo == 2

JogoIds == 1..MaxJogo
AmigoIds == 1..MaxAmigo
EmprestimoIds == 1..MaxEmprestimo

\* titulo stands for the required text fields of a Jogo
\* (titulo, genero, plataforma, ano_lancamento).
Titulos == {"a"}

\* Python's None, as the value of Amigo.email.
None == "<None>"
Emails == {"x@x"}

\* Project_2/blog: the relational store, one set of rows per table.  It is
\* empty and untouched while the flat-file store is exercised.
db_vazio ==
    [users |-> {}, categories |-> {}, posts |-> {}, links |-> {},
     comments |-> {}, likes |-> {}]

\* The worker processes serving flat-file requests step by step; every
\* worker is idle while the handlers are taken as whole calls.
Trabalhadores == {1, 2}
parado == [pc |-> "parado"]

----------------------------------------------------------------------------
(* models.py: the request bodies and the pydantic models built from them.  *)

\* A request body for a Jogo: disponivel may be left out.
JogoReqs ==
    [id : JogoIds, titulo : Titulos]
        \cup [id : JogoIds, titulo : Titulos, disponivel : BOOLEAN]

\* A request body for an Amigo: email may be left out.
AmigoReqs == [id : AmigoIds] \cup [id : AmigoIds, email : Emails]

\* A request body for an Emprestimo: every modelled field is required.
EmprestimoReqs == [id : EmprestimoIds, jogo_id : JogoIds, amigo_id : AmigoIds]

\* Jogo with the default of disponivel taken to be False.
Jogo_padrao_indisponivel(req) ==
    [id |-> req.id,
     titulo |-> req.titulo,
     disponivel |-> IF "disponivel" \in DOMAIN req THEN req.disponivel ELSE FALSE]

\* Jogo(**body): a field left out takes its default.
Jogo(req) ==
    [id |-> req.id,
     titulo |-> req.titulo,
     disponivel |-> IF "disponivel" \in DOMAIN req THEN req.disponivel ELSE TRUE]

Amigo(req) ==
    [id |-> req.id,
     email |-> IF "email" \in DOMAIN req THEN req.email ELSE None]

Emprestimo(req) ==
    [id |-> req.id, jogo_id |-> req.jogo_id, amigo_id |-> req.amigo_id]

----------------------------------------------------------------------------
(* database.py: the CSV layer.                                             *)

\* What csv.DictWriter writes for one value: str(value), and '' for None.
\* Integers are kept as they are: int(str(n)) = n for every Python int.
texto_csv(campo, valor) ==
    CASE campo = "disponivel" -> (IF valor THEN "True" ELSE "False")
      [] campo = "email" -> (IF valor = None THEN "" ELSE valor)
      [] OTHER -> valor

\* escrever_csv: the rows the file holds after the write.
escrever_csv(dados) ==
    [i \in DOMAIN dados |->
        [campo \in DOMAIN dados[i] |-> texto_csv(campo, dados[i][campo])]]

\* _converter_tipos: only 'disponivel' is not read back by int(); a value
\* of '' is left as it is.
converter_tipos(item) ==
    [campo \in DOMAIN item |->
        IF campo = "disponivel" /\ item[campo] # ""
        THEN item[campo] = "True"
        ELSE item[campo]]

ler_csv(arquivo) == [i \in DOMAIN arquivo |-> converter_tipos(arquivo[i])]

\* model.model_validate(item) succeeds: the row has the types of the model.
valido(item) ==
    /\ item.id \in Int
    /\ "disponivel" \in DOMAIN item => item.disponivel \in BOOLEAN

\* carregar_entidades: the rows that validate, as model objects.
carregar_entidades(arquivo) == SelectSeq(ler_csv(arquivo), valido)

\* any(int(d.get('id')) == item_id for d in dados)
tem_id(dados, item_id) == \E i \in DOMAIN dados : dados[i].id = item_id

validar_id_existente(arquivo, item_id) == tem_id(ler_csv(arquivo), item_id)

\* next(i for i, d in enumerate(dados) if d.id == item_id): the first match.
primeiro(dados, item_id) ==
    CHOOSE i \in DOMAIN dados :
        /\ dados[i].id = item_id
        /\ \A k \in 1..(i - 1) : dados[k].id # item_id

----------------------------------------------------------------------------
(* database.py: the generic CRUD operations.  Each returns the value the   *)
(* Python function returns (or the error it raises) and the file contents  *)
(* it leaves.                                                              *)

\* criar_entidade without the check for an id already in use.
criar_entidade_sem_duplicado(arquivo, item) ==
    [ret |-> "ok", arquivo |-> escrever_csv(Append(ler_csv(arquivo), item))]

criar_entidade(arquivo, item) ==
    LET dados == ler_csv(arquivo)
    IN  IF tem_id(dados, item.id)
        THEN [ret |-> "DuplicateId", arquivo |-> arquivo]
        ELSE [ret |-> "ok", arquivo |-> escrever_csv(Append(dados, item))]

\* atualizar_entidade looking for item_id before it checks the new id.
atualizar_entidade_busca_primeiro(arquivo, item_id, item) ==
    LET dados == ler_csv(arquivo)
        dados_atualizados ==
            [i \in DOMAIN dados |->
                IF dados[i].id = item_id THEN item ELSE dados[i]]
    IN  IF ~tem_id(dados, item_id)
        THEN [ret |-> "none", arquivo |-> arquivo]
        ELSE IF item.id # item_id /\ tem_id(dados, item.id)
        THEN [ret |-> "DuplicateId", arquivo |-> arquivo]
        ELSE [ret |-> "ok", arquivo |-> escrever_csv(dados_atualizados)]

atualizar_entidade(arquivo, item_id, item) ==
    LET dados == ler_csv(arquivo)
        dados_atualizados ==
            [i \in DOMAIN dados |->
                IF dados[i].id = item_id THEN item ELSE dados[i]]
    IN  IF item.id # item_id /\ tem_id(dados, item.id)
        THEN [ret |-> "DuplicateId", arquivo |-> arquivo]
        ELSE IF ~tem_id(dados, item_id)
        THEN [ret |-> "none", arquivo |-> arquivo]
        ELSE [ret |-> "ok", arquivo |-> escrever_csv(dados_atualizados)]

\* deletar_entidade raising an error for an id that is absent.
deletar_entidade_erro(arquivo, item_id) ==
    LET dados == ler_csv(arquivo)
        filtra(d) == d.id # item_id
    IN  IF ~validar_id_existente(arquivo, item_id)
        THEN [ret |-> "ReferenceNotFound", arquivo |-> arquivo]
        ELSE [ret |-> "true", arquivo |-> escrever_csv(SelectSeq(dados, filtra))]

deletar_entidade(arquivo, item_id) ==
    LET dados == ler_csv(arquivo)
        filtra(d) == d.id # item_id
    IN  IF ~validar_id_existente(arquivo, item_id)
        THEN [ret |-> "false", arquivo |-> arquivo]
        ELSE [ret |-> "true", arquivo |-> escrever_csv(SelectSeq(dados, filtra))]

----------------------------------------------------------------------------
(* database.py: the loan operations.  Each returns the value returned (or  *)
(* the error raised) and the jogos and emprestimos files it leaves.        *)

\* jogo = next((j for j in jogos if j.id == jogo_id), None)
\* if jogo: jogo.disponivel = valor
marcar_disponivel(js, jogo_id, valor) ==
    [i \in DOMAIN js |->
        IF tem_id(js, jogo_id) /\ i = primeiro(js, jogo_id)
        THEN [js[i] EXCEPT !.disponivel = valor]
        ELSE js[i]]

\* criar_emprestimo without the check of jogo.disponivel.
criar_emprestimo_db_sem_disponivel(J, A, E, emprestimo) ==
    LET js == carregar_entidades(J)
        as == carregar_entidades(A)
        jogos_atualizados == marcar_disponivel(js, emprestimo.jogo_id, FALSE)
        r == criar_entidade(E, emprestimo)
    IN  IF ~tem_id(js, emprestimo.jogo_id)
        THEN [ret |-> "ReferenceNotFound", jogos |-> J, emprestimos |-> E]
        ELSE IF ~tem_id(as, emprestimo.amigo_id)
        THEN [ret |-> "ReferenceNotFound", jogos |-> J, emprestimos |-> E]
        ELSE [ret |-> r.ret,
              jogos |-> escrever_csv(jogos_atualizados),
              emprestimos |-> r.arquivo]

\* criar_emprestimo checking jogo.disponivel before it looks for the Amigo.
criar_emprestimo_db_disponivel_primeiro(J, A, E, emprestimo) ==
    LET js == carregar_entidades(J)
        as == carregar_entidades(A)
        jogos_atualizados == marcar_disponivel(js, emprestimo.jogo_id, FALSE)
        r == criar_entidade(E, emprestimo)
    IN  IF ~tem_id(js, emprestimo.jogo_id)
        THEN [ret |-> "ReferenceNotFound", jogos |-> J, emprestimos |-> E]
        ELSE IF ~js[primeiro(js, emprestimo.jogo_id)].disponivel
        THEN [ret |-> "NotAvailable", jogos |-> J, emprestimos |-> E]
        ELSE IF ~tem_id(as, emprestimo.amigo_id)
        THEN [ret |-> "ReferenceNotFound", jogos |-> J, emprestimos |-> E]
        ELSE [ret |-> r.ret,
              jogos |-> escrever_csv(jogos_atualizados),
              emprestimos |-> r.arquivo]

criar_emprestimo_db(J, A, E, emprestimo) ==
    LET js == carregar_entidades(J)
        as == carregar_entidades(A)
        jogos_atualizados == marcar_disponivel(js, emprestimo.jogo_id, FALSE)
        r == criar_entidade(E, emprestimo)
    IN  IF ~tem_id(js, emprestimo.jogo_id)
        THEN [ret |-> "ReferenceNotFound", jogos |-> J, emprestimos |-> E]
        ELSE IF ~tem_id(as, emprestimo.amigo_id)
        THEN [ret |-> "ReferenceNotFound", jogos |-> J, emprestimos |-> E]
        ELSE IF ~js[primeiro(js, emprestimo.jogo_id)].disponivel
        THEN [ret |-> "NotAvailable", jogos |-> J, emprestimos |-> E]
        ELSE [ret |-> r.ret,
              jogos |-> escrever_csv(jogos_atualizados),
              emprestimos |-> r.arquivo]

\* atualizar_emprestimo that reserves the new Jogo and forgets to release
\* the old one.
atualizar_emprestimo_db_sem_liberar(J, E, emprestimo_id, emprestimo) ==
    LET es == carregar_entidades(E)
        js == carregar_entidades(J)
        r == atualizar_entidade(E, emprestimo_id, emprestimo)
    IN  IF ~tem_id(es, emprestimo_id)
        THEN [ret |-> "none", jogos |-> J, emprestimos |-> E]
        ELSE
          LET emprestimo_antigo == es[primeiro(es, emprestimo_id)]
              jogos_atualizados == marcar_disponivel(js, emprestimo.jogo_id, FALSE)
          IN  IF emprestimo_antigo.jogo_id = emprestimo.jogo_id
              THEN [ret |-> r.ret, jogos |-> J, emprestimos |-> r.arquivo]
              ELSE IF /\ tem_id(js, emprestimo.jogo_id)
                      /\ ~js[primeiro(js, emprestimo.jogo_id)].disponivel
              THEN [ret |-> "NotAvailable", jogos |-> J, emprestimos |-> E]
              ELSE [ret |-> r.ret,
                    jogos |-> escrever_csv(jogos_atualizados),
                    emprestimos |-> r.arquivo]

\* atualizar_emprestimo that releases the Jogo of the loan and rewrites the
\* jogos file even when the loan keeps its Jogo.
atualizar_emprestimo_db_libera_sempre(J, E, emprestimo_id, emprestimo) ==
    LET es == carregar_entidades(E)
        js == carregar_entidades(J)
        r == atualizar_entidade(E, emprestimo_id, emprestimo)
    IN  IF ~tem_id(es, emprestimo_id)
        THEN [ret |-> "none", jogos |-> J, emprestimos |-> E]
        ELSE
          LET emprestimo_antigo == es[primeiro(es, emprestimo_id)]
              liberados == marcar_disponivel(js, emprestimo_antigo.jogo_id, TRUE)
              jogos_atualizados ==
                  marcar_disponivel(liberados, emprestimo.jogo_id, FALSE)
          IN  IF emprestimo_antigo.jogo_id = emprestimo.jogo_id
              THEN [ret |-> r.ret, jogos |-> escrever_csv(liberados),
                    emprestimos |-> r.arquivo]
              ELSE IF /\ tem_id(liberados, emprestimo.jogo_id)
                      /\ ~liberados[primeiro(liberados, emprestimo.jogo_id)].disponivel
              THEN [ret |-> "NotAvailable", jogos |-> J, emprestimos |-> E]
              ELSE [ret |-> r.ret,
                    jogos |-> escrever_csv(jogos_atualizados),
                    emprestimos |-> r.arquivo]

atualizar_emprestimo_db(J, E, emprestimo_id, emprestimo) ==
    LET es == carregar_entidades(E)
        js == carregar_entidades(J)
        r == atualizar_entidade(E, emprestimo_id, emprestimo)
    IN  IF ~tem_id(es, emprestimo_id)
        THEN [ret |-> "none", jogos |-> J, emprestimos |-> E]
        ELSE
          LET emprestimo_antigo == es[primeiro(es, emprestimo_id)]
              liberados == marcar_disponivel(js, emprestimo_antigo.jogo_id, TRUE)
              jogos_atualizados ==
                  marcar_disponivel(liberados, emprestimo.jogo_id, FALSE)
          IN  IF emprestimo_antigo.jogo_id = emprestimo.jogo_id
              THEN [ret |-> r.ret, jogos |-> J, emprestimos |-> r.arquivo]
              ELSE IF /\ tem_id(liberados, emprestimo.jogo_id)
                      /\ ~liberados[primeiro(liberados, emprestimo.jogo_id)].disponivel
              THEN [ret |-> "NotAvailable", jogos |-> J, emprestimos |-> E]
              ELSE [ret |-> r.ret,
                    jogos |-> escrever_csv(jogos_atualizados),
                    emprestimos |-> r.arquivo]

\* deletar_emprestimo that removes the Emprestimo and leaves the Jogo as it is.
deletar_emprestimo_sem_liberar(J, E, emprestimo_id) ==
    LET es == carregar_entidades(E)
        r == deletar_entidade(E, emprestimo_id)
    IN  IF ~tem_id(es, emprestimo_id)
        THEN [ret |-> "false", jogos |-> J, emprestimos |-> E]
        ELSE [ret |-> r.ret, jogos |-> J, emprestimos |-> r.arquivo]

deletar_emprestimo(J, E, emprestimo_id) ==
    LET es == carregar_entidades(E)
        js == carregar_entidades(J)
        r == deletar_entidade(E, emprestimo_id)
    IN  IF ~tem_id(es, emprestimo_id)
        THEN [ret |-> "false", jogos |-> J, emprestimos |-> E]
        ELSE
          LET emprestimo == es[primeiro(es, emprestimo_id)]
          IN  [ret |-> r.ret,
               jogos |-> IF tem_id(js, emprestimo.jogo_id)
                         THEN escrever_csv(
                                  marcar_disponivel(js, emprestimo.jogo_id, TRUE))
                         ELSE J,
               emprestimos |-> r.arquivo]

----------------------------------------------------------------------------
(* main.py: the HTTP handlers.  chamada is the request handled last,       *)
(* retorno its outcome and HTTP status, antes the three files as they were *)
(* when the request arrived.                                               *)

arquivos == [jogos |-> jogos, amigos |-> amigos, emprestimos |-> emprestimos]

Erros == {"DuplicateId", "ReferenceNotFound", "NotAvailable"}

\* POST: 201, or 400 for a ValueError.
resposta_post(ret) ==
    [ret |-> ret, status |-> IF ret \in Erros THEN 400 ELSE 201]

\* PUT: 200, 404 when the store returns None, 400 for a ValueError.
resposta_put(ret) ==
    [ret |-> ret,
     status |-> IF ret \in Erros THEN 400 ELSE IF ret = "none" THEN 404 ELSE 200]

\* DELETE: 204, or 404 when the store returns False.
resposta_delete(ret) ==
    [ret |-> ret, status |-> IF ret = "false" THEN 404 ELSE 204]

Init ==
    /\ jogos = <<>>
    /\ amigos = <<>>
    /\ emprestimos = <<>>
    /\ chamada = [op |-> "inicio", id |-> 0, req |-> [id |-> 0]]
    /\ retorno = [ret |-> "ok", status |-> 200]
    /\ antes = [jogos |-> <<>>, amigos |-> <<>>, emprestimos |-> <<>>]
    /\ db = db_vazio
    /\ trab = [w \in Trabalhadores |-> parado]

criar_jogo(req) ==
    LET r == criar_entidade(jogos, Jogo(req))
    IN  /\ jogos' = r.arquivo
        /\ retorno' = resposta_post(r.ret)
        /\ chamada' = [op |-> "criar_jogo", id |-> req.id, req |-> req]
        /\ antes' = arquivos
        /\ UNCHANGED <<db, trab>>
        /\ UNCHANGED <<amigos, emprestimos>>

atualizar_jogo(jogo_id, req) ==
    LET r == atualizar_entidade(jogos, jogo_id, Jogo(req))
    IN  /\ jogos' = r.arquivo
        /\ retorno' = resposta_put(r.ret)
        /\ chamada' = [op |-> "atualizar_jogo", id |-> jogo_id, req |-> req]
        /\ antes' = arquivos
        /\ UNCHANGED <<db, trab>>
        /\ UNCHANGED <<amigos, emprestimos>>

\* A variant of remover_jogo that also removes the loans of the game.
remover_jogo_cascata(jogo_id) ==
    LET r == deletar_entidade(jogos, jogo_id)
        outro(e) == e.jogo_id # jogo_id
    IN  /\ jogos' = r.arquivo
        /\ emprestimos' = IF r.ret = "true" THEN SelectSeq(emprestimos, outro)
                          ELSE emprestimos
        /\ retorno' = resposta_delete(r.ret)
        /\ chamada' = [op |-> "remover_jogo", id |-> jogo_id, req |-> [id |-> jogo_id]]
        /\ antes' = arquivos
        /\ UNCHANGED <<amigos, db, trab>>

remover_jogo(jogo_id) ==
    LET r == deletar_entidade(jogos, jogo_id)
    IN  /\ jogos' = r.arquivo
        /\ retorno' = resposta_delete(r.ret)
        /\ chamada' = [op |-> "remover_jogo", id |-> jogo_id, req |-> [id |-> jogo_id]]
        /\ antes' = arquivos
        /\ UNCHANGED <<db, trab>>
        /\ UNCHANGED <<amigos, emprestimos>>

criar_amigo(req) ==
    LET r == criar_entidade(amigos, Amigo(req))
    IN  /\ amigos' = r.arquivo
        /\ retorno' = resposta_post(r.ret)
        /\ chamada' = [op |-> "criar_amigo", id |-> req.id, req |-> req]
        /\ antes' = arquivos
        /\ UNCHANGED <<db, trab>>
        /\ UNCHANGED <<jogos, emprestimos>>

atualizar_amigo(amigo_id, req) ==
    LET r == atualizar_entidade(amigos, amigo_id, Amigo(req))
    IN  /\ amigos' = r.arquivo
        /\ retorno' = resposta_put(r.ret)
        /\ chamada' = [op |-> "atualizar_amigo", id |-> amigo_id, req |-> req]
        /\ antes' = arquivos
        /\ UNCHANGED <<db, trab>>
        /\ UNCHANGED <<jogos, emprestimos>>

remover_amigo(amigo_id) ==
    LET r == deletar_entidade(amigos, amigo_id)
    IN  /\ amigos' = r.arquivo
        /\ retorno' = resposta_delete(r.ret)
        /\ chamada' = [op |-> "remover_amigo", id |-> amigo_id, req |-> [id |-> amigo_id]]
        /\ antes' = arquivos
        /\ UNCHANGED <<db, trab>>
        /\ UNCHANGED <<jogos, emprestimos>>

criar_emprestimo(req) ==
    LET r == criar_emprestimo_db(jogos, amigos, emprestimos, Emprestimo(req))
    IN  /\ jogos' = r.jogos
        /\ emprestimos' = r.emprestimos
        /\ retorno' = resposta_post(r.ret)
        /\ chamada' = [op |-> "criar_emprestimo", id |-> req.id, req |-> req]
        /\ antes' = arquivos
        /\ UNCHANGED <<db, trab>>
        /\ UNCHANGED amigos

atualizar_emprestimo(emprestimo_id, req) ==
    LET r == atualizar_emprestimo_db(jogos, emprestimos, emprestimo_id, Emprestimo(req))
    IN  /\ jogos' = r.jogos
        /\ emprestimos' = r.emprestimos
        /\ retorno' = resposta_put(r.ret)
        /\ chamada' = [op |-> "atualizar_emprestimo", id |-> emprestimo_id, req |-> req]
        /\ antes' = arquivos
        /\ UNCHANGED <<db, trab>>
        /\ UNCHANGED amigos

remover_emprestimo(emprestimo_id) ==
    LET r == deletar_emprestimo(jogos, emprestimos, emprestimo_id)
    IN  /\ jogos' = r.jogos
        /\ emprestimos' = r.emprestimos
        /\ retorno' = resposta_delete(r.ret)
        /\ chamada' = [op |-> "remover_emprestimo", id |-> emprestimo_id,
                       req |-> [id |-> emprestimo_id]]
        /\ antes' = arquivos
        /\ UNCHANGED <<db, trab>>
        /\ UNCHANGED amigos

Next ==
    \/ \E req \in JogoReqs : criar_jogo(req)
    \/ \E jogo_id \in JogoIds, req \in JogoReqs : atualizar_jogo(jogo_id, req)
    \/ \E jogo_id \in JogoIds : remover_jogo(jogo_id)
    \/ \E req \in AmigoReqs : criar_amigo(req)
    \/ \E amigo_id \in AmigoIds, req \in AmigoReqs : atualizar_amigo(amigo_id, req)
    \/ \E amigo_id \in AmigoIds : remover_amigo(amigo_id)
    \/ \E req \in EmprestimoReqs : criar_emprestimo(req)
    \/ \E emprestimo_id \in EmprestimoIds, req \in EmprestimoReqs :
           atualizar_emprestimo(emprestimo_id, req)
    \/ \E emprestimo_id \in EmprestimoIds : remover_emprestimo(emprestimo_id)

Spec == Init /\ [][Next]_vars

----------------------------------------------------------------------------
(* main.py, GET /{entidade}/{id}: what a reader of the store sees.         *)

\* any(x.id == item_id for x in carregar_entidades(...))
existe(arquivo, item_id) == tem_id(carregar_entidades(arquivo), item_id)

\* next((x for x in carregar_entidades(...) if x.id == item_id), None),
\* for an id that exists.
obter(arquivo, item_id) ==
    LET dados == carregar_entidades(arquivo)
    IN  dados[primeiro(dados, item_id)]

----------------------------------------------------------------------------
(* Claims C1 to C10.                                                       *)

\* C1: criar_emprestimo for an existing Jogo with disponivel = False and an
\* existing Amigo fails with NotAvailable and leaves the emprestimos file
\* exactly as it was before the call.
C1_NotAvailable ==
    ( /\ chamada.op = "criar_emprestimo"
      /\ existe(antes.jogos, chamada.req.jogo_id)
      /\ ~obter(antes.jogos, chamada.req.jogo_id).disponivel
      /\ existe(antes.amigos, chamada.req.amigo_id) )
    => /\ retorno.ret = "NotAvailable"
       /\ emprestimos = antes.emprestimos

C1_Witness ==
    /\ chamada.op = "criar_emprestimo"
    /\ existe(antes.jogos, chamada.req.jogo_id)
    /\ ~obter(antes.jogos, chamada.req.jogo_id).disponivel
    /\ existe(antes.amigos, chamada.req.amigo_id)
    /\ Len(antes.emprestimos) > 0

\* C2: a successful criar_emprestimo sets the Jogo's disponivel to False and
\* adds the Emprestimo; and while an Emprestimo naming a Jogo is persisted,
\* every further criar_emprestimo naming that Jogo (the Jogo and the Amigo
\* existing, the new id unused) fails with NotAvailable.
C2_LoanedGameStaysUnavailable ==
    /\ ( chamada.op = "criar_emprestimo" /\ retorno.ret = "ok" )
       => /\ ~obter(jogos, chamada.req.jogo_id).disponivel
          /\ ~existe(antes.emprestimos, chamada.req.id)
          /\ obter(emprestimos, chamada.req.id) = Emprestimo(chamada.req)
    /\ ( /\ chamada.op = "criar_emprestimo"
         /\ existe(antes.jogos, chamada.req.jogo_id)
         /\ existe(antes.amigos, chamada.req.amigo_id)
         /\ ~existe(antes.emprestimos, chamada.req.id)
         /\ \E i \in DOMAIN antes.emprestimos :
                antes.emprestimos[i].jogo_id = chamada.req.jogo_id )
       => retorno.ret = "NotAvailable"

\* C3: remover_emprestimo of an existing Emprestimo removes it and leaves the
\* Jogo it named (when that Jogo exists) with disponivel = True; a
\* criar_emprestimo issued then for that Jogo, with an existing Amigo and an
\* unused id, succeeds.
C3_DeleteReleases ==
    ( /\ chamada.op = "remover_emprestimo"
      /\ existe(antes.emprestimos, chamada.id) )
    => LET jogo_id == obter(antes.emprestimos, chamada.id).jogo_id
       IN  /\ retorno.ret = "true"
           /\ ~existe(emprestimos, chamada.id)
           /\ existe(antes.jogos, jogo_id) =>
                /\ existe(jogos, jogo_id)
                /\ obter(jogos, jogo_id).disponivel
                /\ \A req \in EmprestimoReqs :
                     ( /\ req.jogo_id = jogo_id
                       /\ existe(amigos, req.amigo_id)
                       /\ ~existe(emprestimos, req.id) )
                     => criar_emprestimo_db(jogos, amigos, emprestimos,
                                            Emprestimo(req)).ret = "ok"

C3_Witness ==
    /\ chamada.op = "remover_emprestimo"
    /\ existe(antes.emprestimos, chamada.id)
    /\ existe(antes.jogos, obter(antes.emprestimos, chamada.id).jogo_id)
    /\ ~obter(antes.jogos, obter(antes.emprestimos, chamada.id).jogo_id).disponivel
    /\ \E amigo_id \in AmigoIds : existe(amigos, amigo_id)

\* C4: criar_emprestimo fails with ReferenceNotFound when the Jogo or the
\* Amigo it names does not exist, whatever the Jogo's disponivel is, and
\* changes no file.
C4_ReferenceFirst ==
    ( /\ chamada.op = "criar_emprestimo"
      /\ \/ ~existe(antes.jogos, chamada.req.jogo_id)
         \/ ~existe(antes.amigos, chamada.req.amigo_id) )
    => /\ retorno.ret = "ReferenceNotFound"
       /\ arquivos = antes

C4_Witness ==
    /\ chamada.op = "criar_emprestimo"
    /\ existe(antes.jogos, chamada.req.jogo_id)
    /\ ~obter(antes.jogos, chamada.req.jogo_id).disponivel
    /\ ~existe(antes.amigos, chamada.req.amigo_id)

\* C5: atualizar_emprestimo of an existing Emprestimo with another jogo_id:
\* when it succeeds, the old Jogo (if it exists) has disponivel = True, the
\* new Jogo (if it exists) has disponivel = False and the stored Emprestimo
\* names the new Jogo; when the new Jogo exists with disponivel = False it
\* fails with NotAvailable.
C5_UpdateMovesLoan ==
    ( /\ chamada.op = "atualizar_emprestimo"
      /\ existe(antes.emprestimos, chamada.id)
      /\ obter(antes.emprestimos, chamada.id).jogo_id # chamada.req.jogo_id )
    => LET antigo == obter(antes.emprestimos, chamada.id).jogo_id
           novo == chamada.req.jogo_id
       IN  /\ retorno.ret = "ok" =>
                /\ existe(antes.jogos, antigo) =>
                     (existe(jogos, antigo) /\ obter(jogos, antigo).disponivel)
                /\ existe(antes.jogos, novo) =>
                     (existe(jogos, novo) /\ ~obter(jogos, novo).disponivel)
                /\ existe(emprestimos, chamada.req.id)
                /\ obter(emprestimos, chamada.req.id).jogo_id = novo
           /\ ( existe(antes.jogos, novo) /\ ~obter(antes.jogos, novo).disponivel )
                => retorno.ret = "NotAvailable"

C5_Witness ==
    /\ chamada.op = "atualizar_emprestimo"
    /\ retorno.ret = "ok"
    /\ existe(antes.emprestimos, chamada.id)
    /\ obter(antes.emprestimos, chamada.id).jogo_id # chamada.req.jogo_id
    /\ existe(antes.jogos, obter(antes.emprestimos, chamada.id).jogo_id)
    /\ ~obter(antes.jogos, obter(antes.emprestimos, chamada.id).jogo_id).disponivel
    /\ existe(antes.jogos, chamada.req.jogo_id)

\* C6: every persisted Emprestimo names an existing Jogo and an existing
\* Amigo.
C6_ReferencesResolve ==
    \A i \in DOMAIN emprestimos :
        /\ existe(jogos, emprestimos[i].jogo_id)
        /\ existe(amigos, emprestimos[i].amigo_id)

\* The rows of a file have distinct ids.
ids_unicos(arquivo) ==
    \A i, k \in DOMAIN arquivo : arquivo[i].id = arquivo[k].id => i = k

\* C7: no two rows of a file share an id; a create naming an id in use
\* fails (criar_entidade, once reached, with DuplicateId) and adds no row;
\* an update changes a row's id only to an id no row had.
C7_UniqueIds ==
    /\ ids_unicos(jogos)
    /\ ids_unicos(amigos)
    /\ ids_unicos(emprestimos)
    /\ ( chamada.op = "criar_jogo" /\ existe(antes.jogos, chamada.req.id) )
         => (retorno.ret = "DuplicateId" /\ jogos = antes.jogos)
    /\ ( chamada.op = "criar_amigo" /\ existe(antes.amigos, chamada.req.id) )
         => (retorno.ret = "DuplicateId" /\ amigos = antes.amigos)
    /\ ( chamada.op = "criar_emprestimo" /\ existe(antes.emprestimos, chamada.req.id) )
         => /\ retorno.ret \in Erros
            /\ emprestimos = antes.emprestimos
            /\ ( /\ existe(antes.jogos, chamada.req.jogo_id)
                 /\ existe(antes.amigos, chamada.req.amigo_id)
                 /\ obter(antes.jogos, chamada.req.jogo_id).disponivel )
               => retorno.ret = "DuplicateId"
    /\ ( chamada.op = "atualizar_jogo" /\ chamada.req.id # chamada.id )
         => /\ retorno.ret = "ok" => ~existe(antes.jogos, chamada.req.id)
            /\ existe(antes.jogos, chamada.req.id) => retorno.ret = "DuplicateId"
    /\ ( chamada.op = "atualizar_amigo" /\ chamada.req.id # chamada.id )
         => /\ retorno.ret = "ok" => ~existe(antes.amigos, chamada.req.id)
            /\ existe(antes.amigos, chamada.req.id) => retorno.ret = "DuplicateId"
    /\ ( chamada.op = "atualizar_emprestimo" /\ chamada.req.id # chamada.id )
         => /\ retorno.ret = "ok" => ~existe(antes.emprestimos, chamada.req.id)
            /\ ( existe(antes.emprestimos, chamada.req.id)
                 /\ existe(antes.emprestimos, chamada.id) )
               => retorno.ret \in Erros

C7_Witness ==
    /\ chamada.op = "atualizar_jogo"
    /\ chamada.req.id # chamada.id
    /\ existe(antes.jogos, chamada.id)
    /\ existe(antes.jogos, chamada.req.id)
    /\ retorno.ret = "DuplicateId"

\* C8 as claimed: an update naming an id no row has returns none for every
\* record, and changes no file.
C8_AbsentIdIsNone ==
    ( \/ chamada.op = "atualizar_jogo" /\ ~existe(antes.jogos, chamada.id)
      \/ chamada.op = "atualizar_amigo" /\ ~existe(antes.amigos, chamada.id)
      \/ chamada.op = "atualizar_emprestimo"
           /\ ~existe(antes.emprestimos, chamada.id) )
    => (retorno.ret = "none" /\ arquivos = antes)

\* C8 as amended: an update naming an id no row has changes no file; for a
\* Jogo or an Amigo it fails with DuplicateId when the record's own id is
\* another one that a row has, and returns none otherwise; for an Emprestimo
\* it returns none for every record.
C8_AbsentIdNoneOrDuplicate ==
    /\ ( chamada.op = "atualizar_jogo" /\ ~existe(antes.jogos, chamada.id) )
         => /\ arquivos = antes
            /\ retorno.ret = IF existe(antes.jogos, chamada.req.id)
                             THEN "DuplicateId" ELSE "none"
    /\ ( chamada.op = "atualizar_amigo" /\ ~existe(antes.amigos, chamada.id) )
         => /\ arquivos = antes
            /\ retorno.ret = IF existe(antes.amigos, chamada.req.id)
                             THEN "DuplicateId" ELSE "none"
    /\ ( chamada.op = "atualizar_emprestimo"
           /\ ~existe(antes.emprestimos, chamada.id) )
         => (arquivos = antes /\ retorno.ret = "none")

C8_Witness ==
    /\ chamada.op = "atualizar_jogo"
    /\ ~existe(antes.jogos, chamada.id)
    /\ existe(antes.jogos, chamada.req.id)
    /\ retorno.ret = "DuplicateId"

\* C9: a delete naming an id no row has returns False (answered 404), raises
\* nothing and changes no file; for jogos, amigos and emprestimos.
C9_DeleteAbsent ==
    ( \/ chamada.op = "remover_jogo" /\ ~existe(antes.jogos, chamada.id)
      \/ chamada.op = "remover_amigo" /\ ~existe(antes.amigos, chamada.id)
      \/ chamada.op = "remover_emprestimo"
           /\ ~existe(antes.emprestimos, chamada.id) )
    => /\ retorno.ret = "false"
       /\ retorno.status = 404
       /\ arquivos = antes

C9_Witness ==
    /\ chamada.op = "remover_emprestimo"
    /\ ~existe(antes.emprestimos, chamada.id)
    /\ Len(antes.emprestimos) > 0
    /\ Len(antes.jogos) > 0

\* C10 as claimed: a successful update whose request leaves a field out
\* keeps the value that field had (disponivel of a Jogo, email of an Amigo).
C10_PartialMerge ==
    /\ ( /\ chamada.op = "atualizar_jogo"
         /\ retorno.ret = "ok"
         /\ "disponivel" \notin DOMAIN chamada.req )
       => obter(jogos, chamada.req.id).disponivel
            = obter(antes.jogos, chamada.id).disponivel
    /\ ( /\ chamada.op = "atualizar_amigo"
         /\ retorno.ret = "ok"
         /\ "email" \notin DOMAIN chamada.req )
       => obter(amigos, chamada.req.id).email
            = obter(antes.amigos, chamada.id).email

\* C10 as amended: a successful update replaces the whole record by the
\* request's: a field supplied takes the value supplied, and a field left
\* out takes the model's default (disponivel = True for a Jogo, no email for
\* an Amigo, read back as ''), whatever value it had.
C10_FullReplace ==
    /\ ( chamada.op = "atualizar_jogo" /\ retorno.ret = "ok" )
       => /\ obter(jogos, chamada.req.id).titulo = chamada.req.titulo
          /\ obter(jogos, chamada.req.id).disponivel
               = IF "disponivel" \in DOMAIN chamada.req
                 THEN chamada.req.disponivel ELSE TRUE
    /\ ( chamada.op = "atualizar_amigo" /\ retorno.ret = "ok" )
       => obter(amigos, chamada.req.id).email
            = IF "email" \in DOMAIN chamada.req THEN chamada.req.email ELSE ""

C10_Witness ==
    /\ chamada.op = "atualizar_jogo"
    /\ retorno.ret = "ok"
    /\ "disponivel" \notin DOMAIN chamada.req
    /\ ~obter(antes.jogos, chamada.id).disponivel

----------------------------------------------------------------------------
(***************************************************************************)
(* Project_2/blog: the FastAPI/SQLModel blog.  db holds one set of rows    *)
(* per table; a handler runs in its own session, so a request that raises  *)
(* before its commit leaves db as it was.  chamada is the last request,    *)
(* retorno its response [status, detail] and antes the db before it.       *)
(***************************************************************************)

\* Bounds of the blog model: primary keys range over 1..Max.
MaxUser == 2
MaxCategory == 2
MaxPost == 2
MaxComment == 2
MaxLike == 2

UserIds == 1..MaxUser
CategoryIds == 1..MaxCategory
PostIds == 1..MaxPost
CommentIds == 1..MaxComment
LikeIds == 1..MaxLike

PostTitles == {"t", "u"}
CategoryNames == {"c", "d"}

\* category_ids is a JSON list: repetitions and order are kept.
CategoryIdLists ==
    {<<>>} \cup {<<c>> : c \in CategoryIds}
           \cup {<<c, d>> : c \in CategoryIds, d \in CategoryIds}

\* Python's None where a list of ids is expected (0 is no primary key).
NoneIds == <<0>>

\* set(lista) of Python.
elementos(lista) == {lista[i] : i \in DOMAIN lista}

\* sorted(list(conjunto)) of Python, for a set of integers.
RECURSIVE sorted(_)
sorted(conjunto) ==
    IF conjunto = {} THEN <<>>
    ELSE LET m == CHOOSE x \in conjunto : \A y \in conjunto : x <= y
         IN  <<m>> \o sorted(conjunto \ {m})

\* The integer primary key SQLite gives a new row: one more than the largest
\* key in the table (the tables are not declared AUTOINCREMENT).
novo_id(tabela) ==
    IF tabela = {} THEN 1
    ELSE 1 + (CHOOSE m \in {r.id : r \in tabela} : \A r \in tabela : r.id <= m)

\* The response of a handler.
HTTPException(status_code, detail) == [status |-> status_code, detail |-> detail]
resposta(status_code) == [status |-> status_code, detail |-> "ok"]
\* An exception no handler catches: the session is rolled back and the
\* framework answers 500.
erro_interno == [status |-> 500, detail |-> "Internal Server Error"]

\* schemas/post.py: PostCreate; category_ids left out is [].
PostCreateReqs ==
    [title : PostTitles, author_id : UserIds, category_ids : CategoryIdLists]
        \cup [title : PostTitles, author_id : UserIds]

PostCreate(req) ==
    [title |-> req.title, author_id |-> req.author_id,
     category_ids |-> IF "category_ids" \in DOMAIN req THEN req.category_ids
                      ELSE <<>>]

\* schemas/post.py: PostUpdate; every field may be left out, and
\* category_ids may also be sent as null.
PostUpdateReqs ==
    LET cats == CategoryIdLists \cup {NoneIds}
    IN  [title : PostTitles] \cup [category_ids : cats]
            \cup [title : PostTitles, category_ids : cats]
            \cup {[updated_at |-> None]}

\* The model built from the body: a field left out takes its default, which
\* is None for title and [] for category_ids; fields_set is what
\* exclude_unset keeps.
PostUpdate(req) ==
    [title |-> IF "title" \in DOMAIN req THEN req.title ELSE None,
     category_ids |-> IF "category_ids" \in DOMAIN req THEN req.category_ids
                      ELSE <<>>,
     fields_set |-> DOMAIN req]

\* The rows of PostCategoryLink a handler adds for a post, and whether the
\* commit of them violates the primary key (post_id, category_id).
novos_links(post_id, category_ids) ==
    {[post_id |-> post_id, category_id |-> c] : c \in elementos(category_ids)}
link_repetido(category_ids) ==
    Len(category_ids) # Cardinality(elementos(category_ids))

links_de(post_id) == {l \in db.links : l.post_id = post_id}
categorias_de(post_id) == {l.category_id : l \in links_de(post_id)}

\* routers/category.py
create_category(name) ==
    LET db_category == [id |-> novo_id(db.categories), name |-> name]
        repetida == \E c \in db.categories : c.name = name
    IN  /\ repetida \/ db_category.id <= MaxCategory
        /\ chamada' = [op |-> "create_category", id |-> 0, req |-> [name |-> name]]
        /\ antes' = db
        /\ IF repetida
           THEN /\ retorno' = erro_interno
                /\ db' = db
           ELSE /\ retorno' = resposta(200)
                /\ db' = [db EXCEPT !.categories = @ \cup {db_category}]
        /\ UNCHANGED <<jogos, amigos, emprestimos, trab>>

\* session.delete(category): the ORM also deletes the rows of the link table
\* of the many-to-many relationship Category.posts.
delete_category(category_id) ==
    /\ chamada' = [op |-> "delete_category", id |-> category_id,
                   req |-> [id |-> category_id]]
    /\ antes' = db
    /\ IF ~ \E c \in db.categories : c.id = category_id
       THEN /\ retorno' = HTTPException(404, "Category not found")
            /\ db' = db
       ELSE /\ retorno' = resposta(204)
            /\ db' = [db EXCEPT
                        !.categories = {c \in @ : c.id # category_id},
                        !.links = {l \in @ : l.category_id # category_id}]
    /\ UNCHANGED <<jogos, amigos, emprestimos, trab>>

\* routers/post.py
create_post_sem_verificar(req) ==
    LET post == PostCreate(req)
        db_post == [id |-> novo_id(db.posts), title |-> post.title,
                    author_id |-> post.author_id]
    IN  /\ db_post.id <= MaxPost
        /\ chamada' = [op |-> "create_post", id |-> 0, req |-> req]
        /\ antes' = db
        /\ retorno' = resposta(200)
        /\ db' = [db EXCEPT !.posts = @ \cup {db_post},
                     !.links = @ \cup novos_links(db_post.id, post.category_ids)]
        /\ UNCHANGED <<jogos, amigos, emprestimos, trab>>

create_post(req) ==
    LET post == PostCreate(req)
        author == {u \in db.users : u.id = post.author_id}
        existing_post == {p \in db.posts : /\ p.title = post.title
                                           /\ p.author_id = post.author_id}
        found_ids == {cat.id : cat \in {c \in db.categories :
                                          c.id \in elementos(post.category_ids)}}
        missing_ids == elementos(post.category_ids) \ found_ids
        db_post == [id |-> novo_id(db.posts), title |-> post.title,
                    author_id |-> post.author_id]
        com_post == [db EXCEPT !.posts = @ \cup {db_post}]
        falha ==
            IF post.category_ids = <<>>
            THEN HTTPException(400, "At least one category must be provided.")
            ELSE IF author = {}
            THEN HTTPException(404, "Author not found")
            ELSE IF existing_post # {}
            THEN HTTPException(400,
                     "A post with this title already exists for this author.")
            ELSE IF missing_ids # {}
            THEN HTTPException(404, [msg |-> "Categories not found",
                                     ids |-> sorted(missing_ids)])
            ELSE resposta(200)
    IN  /\ falha.status # 200 \/ db_post.id <= MaxPost
        /\ chamada' = [op |-> "create_post", id |-> 0, req |-> req]
        /\ antes' = db
        /\ IF falha.status # 200
           THEN /\ retorno' = falha
                /\ db' = db
           ELSE IF link_repetido(post.category_ids)
           \* the Post is committed, the commit of the links then fails
           THEN /\ retorno' = erro_interno
                /\ db' = com_post
           ELSE /\ retorno' = resposta(200)
                /\ db' = [com_post EXCEPT
                            !.links = @ \cup novos_links(db_post.id,
                                                         post.category_ids)]
        /\ UNCHANGED <<jogos, amigos, emprestimos, trab>>

update_post(post_id, req) ==
    LET post_update == PostUpdate(req)
        post == {p \in db.posts : p.id = post_id}
        found_ids == {cat.id : cat \in {c \in db.categories :
                                   c.id \in elementos(post_update.category_ids)}}
        missing_ids == elementos(post_update.category_ids) \ found_ids
        com_dados ==
            [db EXCEPT !.posts =
                {IF p.id = post_id /\ "title" \in post_update.fields_set
                 THEN [p EXCEPT !.title = post_update.title] ELSE p : p \in @}]
    IN  /\ chamada' = [op |-> "update_post", id |-> post_id, req |-> req]
        /\ antes' = db
        /\ IF post = {}
           THEN /\ retorno' = HTTPException(404, "Post not found")
                /\ db' = db
           ELSE IF post_update.category_ids = NoneIds
           THEN /\ retorno' = resposta(200)
                /\ db' = com_dados
           ELSE IF missing_ids # {}
           THEN /\ retorno' = HTTPException(404,
                                  [msg |-> "Categories not found",
                                   ids |-> sorted(missing_ids)])
                /\ db' = db
           ELSE IF link_repetido(post_update.category_ids)
           THEN /\ retorno' = erro_interno
                /\ db' = db
           ELSE /\ retorno' = resposta(200)
                /\ db' = [com_dados EXCEPT !.links =
                            {l \in @ : l.post_id # post_id}
                                \cup novos_links(post_id,
                                                 post_update.category_ids)]
        /\ UNCHANGED <<jogos, amigos, emprestimos, trab>>

\* The posts, categories and links of the blog with one registered user.
InitPosts ==
    /\ jogos = <<>>
    /\ amigos = <<>>
    /\ emprestimos = <<>>
    /\ trab = [w \in Trabalhadores |-> parado]
    /\ db = [db_vazio EXCEPT
               !.users = {[id |-> 1, username |-> "a", email |-> "x"]}]
    /\ chamada = [op |-> "inicio", id |-> 0, req |-> [id |-> 0]]
    /\ retorno = resposta(200)
    /\ antes = db

NextPosts ==
    \/ \E name \in CategoryNames : create_category(name)
    \/ \E category_id \in CategoryIds : delete_category(category_id)
    \/ \E req \in PostCreateReqs : create_post(req)
    \/ \E post_id \in PostIds, req \in PostUpdateReqs : update_post(post_id, req)

SpecPosts == InitPosts /\ [][NextPosts]_vars

----------------------------------------------------------------------------
(* Claims about the posts and their categories.                            *)

\* C11: update_post replaces the post's whole set of category links with
\* exactly the supplied ids when category ids are supplied, and leaves the
\* post's category links unchanged when the request supplies none.
C11_UpdateReplacesCategories ==
    (chamada.op = "update_post" /\ retorno.status = 200) =>
        IF "category_ids" \in DOMAIN chamada.req
              /\ chamada.req.category_ids # NoneIds
        THEN categorias_de(chamada.id) = elementos(chamada.req.category_ids)
        ELSE links_de(chamada.id) = {l \in antes.links : l.post_id = chamada.id}

\* The supplied category ids of the last create_post that had no Category
\* row when the request arrived.
ids_sem_categoria ==
    elementos(PostCreate(chamada.req).category_ids)
        \ {c.id : c \in antes.categories}

\* C12: create_post with at least one category id that has no Category row
\* fails and persists neither a Post row nor a link row; when the author
\* exists and has no post of that title, the reported missing ids are
\* exactly the supplied ids that have no Category row.
C12_MissingCategories ==
    (chamada.op = "create_post" /\ ids_sem_categoria # {}) =>
        /\ retorno.status \in {400, 404}
        /\ db = antes
        /\ ( /\ \E u \in antes.users : u.id = chamada.req.author_id
             /\ ~ \E p \in antes.posts : /\ p.title = chamada.req.title
                                         /\ p.author_id = chamada.req.author_id )
              => retorno = HTTPException(404,
                               [msg |-> "Categories not found",
                                ids |-> sorted(ids_sem_categoria)])

\* A create_post naming one existing and one missing category is refused
\* and reports the missing one only.
C12_Witness ==
    /\ chamada.op = "create_post"
    /\ ids_sem_categoria # {}
    /\ ids_sem_categoria # elementos(chamada.req.category_ids)
    /\ retorno.status = 404
    /\ retorno.detail = [msg |-> "Categories not found",
                         ids |-> sorted(ids_sem_categoria)]
    /\ db = antes

\* C13: in every state reachable by create_post, update_post and
\* delete_category, every persisted Post has at least one category link.
C13_PostHasCategory == \A p \in db.posts : links_de(p.id) # {}

----------------------------------------------------------------------------
(* Likes.                                                                  *)

Reactions == {"like", "love"}

\* schemas/like.py: LikeCreate; reaction left out is "like".  The ids range
\* over the registered rows and one id that has no row.
LikeCreateReqs ==
    LET ids == [user_id : 1..(MaxUser + 1), post_id : PostIds]
    IN  ids \cup {[user_id |-> r.user_id, post_id |-> r.post_id,
                   reaction |-> x] : r \in ids, x \in Reactions}

LikeCreate(req) ==
    [user_id |-> req.user_id, post_id |-> req.post_id,
     reaction |-> IF "reaction" \in DOMAIN req THEN req.reaction ELSE "like"]

\* schemas/like.py: LikeUpdate has no user_id and no post_id.
LikeUpdateReqs == [reaction : Reactions] \cup {[ip_address |-> None]}

\* routers/like.py
create_like_sem_verificar(req) ==
    LET like == LikeCreate(req)
        db_like == [id |-> novo_id(db.likes), user_id |-> like.user_id,
                    post_id |-> like.post_id, reaction |-> like.reaction]
    IN  /\ db_like.id <= MaxLike
        /\ chamada' = [op |-> "create_like", id |-> 0, req |-> req]
        /\ antes' = db
        /\ retorno' = resposta(200)
        /\ db' = [db EXCEPT !.likes = @ \cup {db_like}]
        /\ UNCHANGED <<jogos, amigos, emprestimos, trab>>

create_like(req) ==
    LET like == LikeCreate(req)
        user == {u \in db.users : u.id = like.user_id}
        post == {p \in db.posts : p.id = like.post_id}
        existing_like == {l \in db.likes : /\ l.user_id = like.user_id
                                           /\ l.post_id = like.post_id}
        db_like == [id |-> novo_id(db.likes), user_id |-> like.user_id,
                    post_id |-> like.post_id, reaction |-> like.reaction]
        falha ==
            IF user = {} THEN HTTPException(404, "User not found")
            ELSE IF post = {} THEN HTTPException(404, "Post not found")
            ELSE IF existing_like # {}
            THEN HTTPException(400, "This like already exists")
            ELSE resposta(200)
    IN  /\ falha.status # 200 \/ db_like.id <= MaxLike
        /\ chamada' = [op |-> "create_like", id |-> 0, req |-> req]
        /\ antes' = db
        /\ retorno' = falha
        /\ db' = IF falha.status # 200 THEN db
                 ELSE [db EXCEPT !.likes = @ \cup {db_like}]
        /\ UNCHANGED <<jogos, amigos, emprestimos, trab>>

update_like(like_id, req) ==
    /\ chamada' = [op |-> "update_like", id |-> like_id, req |-> req]
    /\ antes' = db
    /\ IF ~ \E l \in db.likes : l.id = like_id
       THEN /\ retorno' = HTTPException(404, "Like not found")
            /\ db' = db
       ELSE /\ retorno' = resposta(200)
            /\ db' = [db EXCEPT !.likes =
                        {IF l.id = like_id /\ "reaction" \in DOMAIN req
                         THEN [l EXCEPT !.reaction = req.reaction]
                         ELSE l : l \in @}]
    /\ UNCHANGED <<jogos, amigos, emprestimos, trab>>

delete_like(like_id) ==
    /\ chamada' = [op |-> "delete_like", id |-> like_id, req |-> [id |-> like_id]]
    /\ antes' = db
    /\ IF ~ \E l \in db.likes : l.id = like_id
       THEN /\ retorno' = HTTPException(404, "Like not found")
            /\ db' = db
       ELSE /\ retorno' = resposta(204)
            /\ db' = [db EXCEPT !.likes = {l \in @ : l.id # like_id}]
    /\ UNCHANGED <<jogos, amigos, emprestimos, trab>>

\* The blog with two registered users, one category and one post of user 1.
db_inicial ==
    [db_vazio EXCEPT
        !.users = {[id |-> 1, username |-> "a", email |-> "x"],
                   [id |-> 2, username |-> "b", email |-> "y"]},
        !.categories = {[id |-> 1, name |-> "c"]},
        !.posts = {[id |-> 1, title |-> "t", author_id |-> 1]},
        !.links = {[post_id |-> 1, category_id |-> 1]}]

InitBlog ==
    /\ jogos = <<>>
    /\ amigos = <<>>
    /\ emprestimos = <<>>
    /\ trab = [w \in Trabalhadores |-> parado]
    /\ db = db_inicial
    /\ chamada = [op |-> "inicio", id |-> 0, req |-> [id |-> 0]]
    /\ retorno = resposta(200)
    /\ antes = db

NextLikes ==
    \/ \E req \in LikeCreateReqs : create_like(req)
    \/ \E like_id \in LikeIds, req \in LikeUpdateReqs : update_like(like_id, req)
    \/ \E like_id \in LikeIds : delete_like(like_id)

SpecLikes == InitBlog /\ [][NextLikes]_vars

\* C14: through create_like, update_like and delete_like no two persisted
\* Likes share a (user_id, post_id) pair; create_like for a pair that has a
\* Like answers 400 and persists nothing, and create_like naming a User or a
\* Post that does not exist answers 404.
C14_UniqueLikes ==
    /\ \A l1, l2 \in db.likes :
           (l1.user_id = l2.user_id /\ l1.post_id = l2.post_id) => l1 = l2
    /\ chamada.op = "create_like" =>
           /\ (\E l \in antes.likes : /\ l.user_id = chamada.req.user_id
                                      /\ l.post_id = chamada.req.post_id)
                  => (retorno.status = 400 /\ db = antes)
           /\ ( \/ ~ \E u \in antes.users : u.id = chamada.req.user_id
                \/ ~ \E p \in antes.posts : p.id = chamada.req.post_id )
                  => (retorno.status = 404 /\ db = antes)

\* A second like of the same user on the same post is refused while another
\* user's like of that post is persisted.
C14_Witness ==
    /\ chamada.op = "create_like"
    /\ retorno = HTTPException(400, "This like already exists")
    /\ Cardinality(db.likes) = 2
    /\ db = antes

----------------------------------------------------------------------------
(* Comments.                                                               *)

\* Comment.content: the empty string and a non-empty one.
Contents == {"", "x"}

\* schemas/comment.py
CommentCreateReqs ==
    [post_id : PostIds, author_id : 1..(MaxUser + 1), content : Contents]
CommentUpdateReqs == [content : Contents \cup {None}]

\* Python's truth value of an Optional[str].
verdadeiro(valor) == valor # None /\ valor # ""

\* routers/comment.py
create_comment(req) ==
    LET post == {p \in db.posts : p.id = req.post_id}
        author == {u \in db.users : u.id = req.author_id}
        existing_comment == {c \in db.comments : /\ c.post_id = req.post_id
                                                 /\ c.author_id = req.author_id
                                                 /\ c.content = req.content}
        db_comment == [id |-> novo_id(db.comments), post_id |-> req.post_id,
                       author_id |-> req.author_id, content |-> req.content]
        falha ==
            IF post = {} THEN HTTPException(404, "Post not found")
            ELSE IF author = {} THEN HTTPException(404, "Author not found")
            ELSE IF existing_comment # {}
            THEN HTTPException(400, "Duplicate comment content by the same user on this post is not allowed.")
            ELSE resposta(200)
    IN  /\ falha.status # 200 \/ db_comment.id <= MaxComment
        /\ chamada' = [op |-> "create_comment", id |-> 0, req |-> req]
        /\ antes' = db
        /\ retorno' = falha
        /\ db' = IF falha.status # 200 THEN db
                 ELSE [db EXCEPT !.comments = @ \cup {db_comment}]
        /\ UNCHANGED <<jogos, amigos, emprestimos, trab>>

update_comment(comment_id, req) ==
    LET achados == {c \in db.comments : c.id = comment_id}
        comment == CHOOSE c \in achados : TRUE
        new_content == req.content
        existing_comment == {c \in db.comments : /\ c.post_id = comment.post_id
                                                 /\ c.author_id = comment.author_id
                                                 /\ c.content = new_content}
    IN  /\ chamada' = [op |-> "update_comment", id |-> comment_id, req |-> req]
        /\ antes' = db
        /\ IF achados = {}
           THEN /\ retorno' = HTTPException(404, "Comment not found")
                /\ db' = db
           ELSE IF /\ verdadeiro(new_content)
                   /\ new_content # comment.content
                   /\ existing_comment # {}
           THEN /\ retorno' = HTTPException(400, "Duplicate comment content by the same user on this post is not allowed.")
                /\ db' = db
           ELSE IF new_content = None
           \* content is NOT NULL: the commit fails
           THEN /\ retorno' = erro_interno
                /\ db' = db
           ELSE /\ retorno' = resposta(200)
                /\ db' = [db EXCEPT !.comments =
                            {IF c.id = comment_id
                             THEN [c EXCEPT !.content = new_content]
                             ELSE c : c \in @}]
        /\ UNCHANGED <<jogos, amigos, emprestimos, trab>>

NextComments ==
    \/ \E req \in CommentCreateReqs : create_comment(req)
    \/ \E comment_id \in CommentIds, req \in CommentUpdateReqs :
           update_comment(comment_id, req)

SpecComments == InitBlog /\ [][NextComments]_vars

\* C15: through create_comment and update_comment, for every content string
\* (the empty string included), no two persisted Comments share a
\* (post_id, author_id, content) triple, and a request that would make such
\* a duplicate is rejected and changes nothing.
C15_UniqueComments ==
    \A c1, c2 \in db.comments :
        ( /\ c1.post_id = c2.post_id
          /\ c1.author_id = c2.author_id
          /\ c1.content = c2.content ) => c1 = c2

----------------------------------------------------------------------------
(* Users.                                                                  *)

Usernames == {"a", "b"}
UserEmails == {"x", "y"}

\* schemas/user.py
UserCreateReqs == [username : Usernames, email : UserEmails]
UserUpdateReqs ==
    [username : Usernames] \cup [email : UserEmails]
        \cup [username : Usernames, email : UserEmails]

\* The rows of other tables that hold a foreign key to a user or to a post.
\* Their foreign-key columns are NOT NULL and the relationships declare no
\* cascade, so session.delete of the parent tries to set them to NULL.
dependentes_de_user(user_id) ==
    [posts |-> {p \in db.posts : p.author_id = user_id},
     comments |-> {c \in db.comments : c.author_id = user_id},
     likes |-> {l \in db.likes : l.user_id = user_id}]
dependentes_de_post(post_id) ==
    [comments |-> {c \in db.comments : c.post_id = post_id},
     likes |-> {l \in db.likes : l.post_id = post_id}]

\* routers/user.py
create_user(req) ==
    LET db_user == [id |-> novo_id(db.users), username |-> req.username,
                    email |-> req.email]
        falhas ==
            {HTTPException(400, "Email is already in use.") :
                 u \in {u \in db.users : u.email = req.email}}
            \cup {HTTPException(400, "Username is already in use.") :
                 u \in {u \in db.users : u.username = req.username}}
    IN  /\ falhas # {} \/ db_user.id <= MaxUser
        /\ chamada' = [op |-> "create_user", id |-> 0, req |-> req]
        /\ antes' = db
        /\ IF falhas # {}
           \* with both columns taken the engine names either constraint
           THEN /\ retorno' \in falhas
                /\ db' = db
           ELSE /\ retorno' = resposta(200)
                /\ db' = [db EXCEPT !.users = @ \cup {db_user}]
        /\ UNCHANGED <<jogos, amigos, emprestimos, trab>>

update_user(user_id, req) ==
    LET user == {u \in db.users : u.id = user_id}
        novo(u) == [id |-> u.id,
                    username |-> IF "username" \in DOMAIN req
                                 THEN req.username ELSE u.username,
                    email |-> IF "email" \in DOMAIN req
                              THEN req.email ELSE u.email]
        repetido == \E u \in user, o \in db.users \ user :
                        \/ o.username = novo(u).username
                        \/ o.email = novo(u).email
    IN  /\ chamada' = [op |-> "update_user", id |-> user_id, req |-> req]
        /\ antes' = db
        /\ IF user = {}
           THEN /\ retorno' = HTTPException(404, "User not found")
                /\ db' = db
           ELSE IF repetido
           \* the IntegrityError of the commit is not caught
           THEN /\ retorno' = erro_interno
                /\ db' = db
           ELSE /\ retorno' = resposta(200)
                /\ db' = [db EXCEPT !.users =
                            {IF u.id = user_id THEN novo(u) ELSE u : u \in @}]
        /\ UNCHANGED <<jogos, amigos, emprestimos, trab>>

delete_user(user_id) ==
    LET dep == dependentes_de_user(user_id)
    IN  /\ chamada' = [op |-> "delete_user", id |-> user_id,
                       req |-> [id |-> user_id]]
        /\ antes' = db
        /\ IF ~ \E u \in db.users : u.id = user_id
           THEN /\ retorno' = HTTPException(404, "User not found")
                /\ db' = db
           ELSE IF dep.posts # {} \/ dep.comments # {} \/ dep.likes # {}
           \* setting a NOT NULL foreign key to NULL fails at the commit
           THEN /\ retorno' = erro_interno
                /\ db' = db
           ELSE /\ retorno' = resposta(204)
                /\ db' = [db EXCEPT !.users = {u \in @ : u.id # user_id}]
        /\ UNCHANGED <<jogos, amigos, emprestimos, trab>>

InitUsers ==
    /\ jogos = <<>>
    /\ amigos = <<>>
    /\ emprestimos = <<>>
    /\ trab = [w \in Trabalhadores |-> parado]
    /\ db = db_vazio
    /\ chamada = [op |-> "inicio", id |-> 0, req |-> [id |-> 0]]
    /\ retorno = resposta(200)
    /\ antes = db

NextUsers ==
    \/ \E req \in UserCreateReqs : create_user(req)
    \/ \E user_id \in UserIds, req \in UserUpdateReqs : update_user(user_id, req)
    \/ \E user_id \in UserIds : delete_user(user_id)

SpecUsers == InitUsers /\ [][NextUsers]_vars

\* Whether the last user request asks for a username or an email that
\* another persisted user already has.
pede_repetido ==
    \/ /\ chamada.op = "create_user"
       /\ \E u \in antes.users : \/ u.username = chamada.req.username
                                 \/ u.email = chamada.req.email
    \/ /\ chamada.op = "update_user"
       /\ \E u \in antes.users : u.id = chamada.id
       /\ \E o \in antes.users :
              /\ o.id # chamada.id
              /\ \/ "username" \in DOMAIN chamada.req
                       /\ o.username = chamada.req.username
                 \/ "email" \in DOMAIN chamada.req
                       /\ o.email = chamada.req.email

\* C16: a create_user or update_user that would duplicate a persisted
\* username or email fails with the "already in use" HTTP 400, distinct from
\* a generic internal failure, and leaves the persisted users unchanged.
C16_AlreadyInUse ==
    pede_repetido =>
        /\ retorno \in {HTTPException(400, "Email is already in use."),
                        HTTPException(400, "Username is already in use.")}
        /\ db = antes

----------------------------------------------------------------------------
(* Deleting a post or a user that other rows refer to.                     *)

\* routers/post.py: session.delete(post).  The ORM deletes the rows of the
\* link table of Post.categories; for Post.comments and Post.likes, which
\* declare no cascade, it sets the children's post_id to NULL, and the
\* column is NOT NULL.
delete_post(post_id) ==
    LET dep == dependentes_de_post(post_id)
    IN  /\ chamada' = [op |-> "delete_post", id |-> post_id,
                       req |-> [id |-> post_id]]
        /\ antes' = db
        /\ IF ~ \E p \in db.posts : p.id = post_id
           THEN /\ retorno' = HTTPException(404, "Post not found")
                /\ db' = db
           ELSE IF dep.comments # {} \/ dep.likes # {}
           THEN /\ retorno' = erro_interno
                /\ db' = db
           ELSE /\ retorno' = resposta(204)
                /\ db' = [db EXCEPT !.posts = {p \in @ : p.id # post_id},
                                    !.links = {l \in @ : l.post_id # post_id}]
        /\ UNCHANGED <<jogos, amigos, emprestimos, trab>>

NextDelete ==
    \/ \E req \in CommentCreateReqs : create_comment(req)
    \/ \E req \in LikeCreateReqs : create_like(req)
    \/ \E post_id \in PostIds : delete_post(post_id)
    \/ \E user_id \in UserIds : delete_user(user_id)

SpecDelete == InitBlog /\ [][NextDelete]_vars

\* C17: deleting a post or a user that exists succeeds, dependents or not,
\* and cascades: after delete_post(p) no Comment, Like or category link
\* refers to p, and after delete_user(u) no Post, Comment or Like refers
\* to u.
C17_DeleteCascades ==
    /\ (chamada.op = "delete_post" /\ \E p \in antes.posts : p.id = chamada.id)
        => /\ retorno.status = 204
           /\ dependentes_de_post(chamada.id) = [comments |-> {}, likes |-> {}]
           /\ links_de(chamada.id) = {}
    /\ (chamada.op = "delete_user" /\ \E u \in antes.users : u.id = chamada.id)
        => /\ retorno.status = 204
           /\ dependentes_de_user(chamada.id)
                  = [posts |-> {}, comments |-> {}, likes |-> {}]

----------------------------------------------------------------------------
(* Claims about the flat-file store, continued.                            *)

\* The rows of a file other than those of the id of the last call.
sem_o_id(arquivo) ==
    LET outro(linha) == linha.id # chamada.id
    IN  SelectSeq(arquivo, outro)

\* C18: deleting a Jogo (or an Amigo) that exists removes only that record
\* from its own file; the emprestimos file, loans of the deleted record
\* included, and the other file are left as they were.
C18_DeleteOnlyThatRecord ==
    /\ (chamada.op = "remover_jogo" /\ existe(antes.jogos, chamada.id)) =>
           /\ retorno.status = 204
           /\ jogos = sem_o_id(antes.jogos)
           /\ amigos = antes.amigos
           /\ emprestimos = antes.emprestimos
    /\ (chamada.op = "remover_amigo" /\ existe(antes.amigos, chamada.id)) =>
           /\ retorno.status = 204
           /\ amigos = sem_o_id(antes.amigos)
           /\ jogos = antes.jogos
           /\ emprestimos = antes.emprestimos

\* A loaned Jogo is deleted while another Jogo is persisted: its loan stays.
C18_Witness ==
    /\ chamada.op = "remover_jogo"
    /\ retorno.status = 204
    /\ Len(jogos) = 1
    /\ \E i \in DOMAIN emprestimos : emprestimos[i].jogo_id = chamada.id

----------------------------------------------------------------------------
(***************************************************************************)
(* The two file writes of a loan operation, one step each.  A worker that  *)
(* has rewritten jogos.csv and not yet emprestimos.csv is at               *)
(* pc = "jogo_escrito"; it may stop there for good (queda), which leaves   *)
(* the files as the first write left them.                                 *)
(***************************************************************************)

ociosos == \A w \in Trabalhadores : trab[w].pc = "parado"
pendente == [ret |-> "pendente", status |-> 0]
interrompido == [ret |-> "queda", status |-> 0]

\* criar_emprestimo writing the Emprestimo first and the Jogo afterwards.
criar_emprestimo_jogos_invertido(w, req) ==
    LET emprestimo == Emprestimo(req)
        r == criar_emprestimo_db(jogos, amigos, emprestimos, emprestimo)
    IN  /\ ociosos
        /\ chamada' = [op |-> "criar_emprestimo", id |-> req.id, req |-> req]
        /\ antes' = arquivos
        /\ IF r.ret # "ok"
           THEN /\ retorno' = resposta_post(r.ret)
                /\ UNCHANGED <<jogos, emprestimos, trab>>
           ELSE /\ emprestimos' = r.emprestimos
                /\ retorno' = pendente
                /\ trab' = [trab EXCEPT ![w] =
                              [pc |-> "jogo_escrito", op |-> "criar_emprestimo",
                               id |-> req.id, emprestimo |-> emprestimo]]
                /\ UNCHANGED jogos
        /\ UNCHANGED <<amigos, db>>

\* criar_emprestimo, lines 186-205: the checks and the write of jogos.csv.
criar_emprestimo_jogos(w, req) ==
    LET emprestimo == Emprestimo(req)
        js == carregar_entidades(jogos)
        as == carregar_entidades(amigos)
        jogos_atualizados == marcar_disponivel(js, emprestimo.jogo_id, FALSE)
        erro == IF ~tem_id(js, emprestimo.jogo_id) THEN "ReferenceNotFound"
                ELSE IF ~tem_id(as, emprestimo.amigo_id) THEN "ReferenceNotFound"
                ELSE IF ~js[primeiro(js, emprestimo.jogo_id)].disponivel
                THEN "NotAvailable"
                ELSE "ok"
    IN  /\ ociosos
        /\ chamada' = [op |-> "criar_emprestimo", id |-> req.id, req |-> req]
        /\ antes' = arquivos
        /\ IF erro # "ok"
           THEN /\ retorno' = resposta_post(erro)
                /\ UNCHANGED <<jogos, trab>>
           ELSE /\ jogos' = escrever_csv(jogos_atualizados)
                /\ retorno' = pendente
                /\ trab' = [trab EXCEPT ![w] =
                              [pc |-> "jogo_escrito", op |-> "criar_emprestimo",
                               id |-> req.id, emprestimo |-> emprestimo]]
        /\ UNCHANGED <<amigos, emprestimos, db>>

\* criar_emprestimo, line 207: criar_entidade("emprestimos", emprestimo).
criar_emprestimo_entidade(w) ==
    LET r == criar_entidade(emprestimos, trab[w].emprestimo)
    IN  /\ trab[w].pc = "jogo_escrito"
        /\ trab[w].op = "criar_emprestimo"
        /\ emprestimos' = r.arquivo
        /\ retorno' = resposta_post(r.ret)
        /\ trab' = [trab EXCEPT ![w] = parado]
        /\ UNCHANGED <<jogos, amigos, chamada, antes, db>>

\* atualizar_emprestimo, lines 209-234: the checks and, when the Jogo of the
\* loan changes, the write of jogos.csv; with the same Jogo the call goes
\* straight to atualizar_entidade.
atualizar_emprestimo_jogos(w, emprestimo_id, req) ==
    LET emprestimo == Emprestimo(req)
        es == carregar_entidades(emprestimos)
        js == carregar_entidades(jogos)
        emprestimo_antigo == es[primeiro(es, emprestimo_id)]
        liberados == marcar_disponivel(js, emprestimo_antigo.jogo_id, TRUE)
        jogos_atualizados == marcar_disponivel(liberados, emprestimo.jogo_id, FALSE)
        r == atualizar_entidade(emprestimos, emprestimo_id, emprestimo)
    IN  /\ ociosos
        /\ chamada' = [op |-> "atualizar_emprestimo", id |-> emprestimo_id,
                       req |-> req]
        /\ antes' = arquivos
        /\ IF ~tem_id(es, emprestimo_id)
           THEN /\ retorno' = resposta_put("none")
                /\ UNCHANGED <<jogos, emprestimos, trab>>
           ELSE IF emprestimo_antigo.jogo_id = emprestimo.jogo_id
           THEN /\ emprestimos' = r.arquivo
                /\ retorno' = resposta_put(r.ret)
                /\ UNCHANGED <<jogos, trab>>
           ELSE IF /\ tem_id(liberados, emprestimo.jogo_id)
                   /\ ~liberados[primeiro(liberados, emprestimo.jogo_id)].disponivel
           THEN /\ retorno' = resposta_put("NotAvailable")
                /\ UNCHANGED <<jogos, emprestimos, trab>>
           ELSE /\ jogos' = escrever_csv(jogos_atualizados)
                /\ retorno' = pendente
                /\ trab' = [trab EXCEPT ![w] =
                              [pc |-> "jogo_escrito",
                               op |-> "atualizar_emprestimo",
                               id |-> emprestimo_id, emprestimo |-> emprestimo]]
                /\ UNCHANGED emprestimos
        /\ UNCHANGED <<amigos, db>>

\* atualizar_emprestimo, line 236: atualizar_entidade("emprestimos", ...).
atualizar_emprestimo_entidade(w) ==
    LET r == atualizar_entidade(emprestimos, trab[w].id, trab[w].emprestimo)
    IN  /\ trab[w].pc = "jogo_escrito"
        /\ trab[w].op = "atualizar_emprestimo"
        /\ emprestimos' = r.arquivo
        /\ retorno' = resposta_put(r.ret)
        /\ trab' = [trab EXCEPT ![w] = parado]
        /\ UNCHANGED <<jogos, amigos, chamada, antes, db>>

\* The process dies between the two writes.
queda(w) ==
    /\ trab[w].pc = "jogo_escrito"
    /\ retorno' = interrompido
    /\ trab' = [trab EXCEPT ![w] = parado]
    /\ UNCHANGED <<jogos, amigos, emprestimos, chamada, antes, db>>

NextPassos ==
    \/ ociosos /\ \E req \in JogoReqs : criar_jogo(req)
    \/ ociosos /\ \E req \in AmigoReqs : criar_amigo(req)
    \/ ociosos /\ \E emprestimo_id \in EmprestimoIds :
                      remover_emprestimo(emprestimo_id)
    \/ \E w \in Trabalhadores, req \in EmprestimoReqs :
           criar_emprestimo_jogos(w, req)
    \/ \E w \in Trabalhadores : criar_emprestimo_entidade(w)
    \/ \E w \in Trabalhadores, emprestimo_id \in EmprestimoIds,
          req \in EmprestimoReqs :
           atualizar_emprestimo_jogos(w, emprestimo_id, req)
    \/ \E w \in Trabalhadores : atualizar_emprestimo_entidade(w)
    \/ \E w \in Trabalhadores : queda(w)

SpecPassos == Init /\ [][NextPassos]_vars

\* The jogos file the whole call of the last loan request leaves.
jogos_da_chamada ==
    IF chamada.op = "criar_emprestimo"
    THEN criar_emprestimo_db(antes.jogos, antes.amigos, antes.emprestimos,
                             Emprestimo(chamada.req)).jogos
    ELSE atualizar_emprestimo_db(antes.jogos, antes.emprestimos, chamada.id,
                                 Emprestimo(chamada.req)).jogos

\* C19: in criar_emprestimo, and in atualizar_emprestimo with a changed
\* jogo_id, the write of the jogos file comes before the write of the
\* emprestimos file: between the two writes, and after a stop there, the
\* availability is already updated and the emprestimos file is as it was;
\* the emprestimos file never changes while the jogos file is still to be
\* written.
C19_JogoAntesDoEmprestimo ==
    /\ ((\E w \in Trabalhadores : trab[w].pc = "jogo_escrito")
            \/ retorno = interrompido)
        => /\ emprestimos = antes.emprestimos
           /\ jogos = jogos_da_chamada
           /\ existe(jogos, chamada.req.jogo_id)
                  => ~obter(jogos, chamada.req.jogo_id).disponivel
    /\ ( /\ chamada.op \in {"criar_emprestimo", "atualizar_emprestimo"}
         /\ emprestimos # antes.emprestimos )
        => jogos = jogos_da_chamada

\* A criar_emprestimo stopped between its writes: the Jogo is reserved and
\* no Emprestimo is persisted.
C19_Witness ==
    /\ retorno = interrompido
    /\ chamada.op = "criar_emprestimo"
    /\ jogos # antes.jogos
    /\ ~obter(jogos, chamada.req.jogo_id).disponivel
    /\ emprestimos = <<>>

----------------------------------------------------------------------------
(***************************************************************************)
(* Two server processes over the same data directory, each serving         *)
(* POST /jogos.  criar_entidade takes no lock: it reads the whole file     *)
(* (line 105), and later rewrites the whole file from what it read (line   *)
(* 112), so the steps of two processes interleave freely.  (Inside one     *)
(* process the handlers are coroutines that never await, and so run one    *)
(* after the other.)                                                       *)
(***************************************************************************)

\* criar_entidade that reads the file again when it writes.
criar_jogo_escrever_relendo(w) ==
    LET r == criar_entidade(jogos, trab[w].item)
    IN  /\ trab[w].pc = "lido"
        /\ jogos' = r.arquivo
        /\ trab' = [trab EXCEPT ![w] = [@ EXCEPT !.pc = "feito", !.ret = r.ret]]
        /\ chamada' = [op |-> "criar_jogo", id |-> trab[w].item.id,
                       req |-> trab[w].req, trabalhador |-> w]
        /\ UNCHANGED <<amigos, emprestimos, retorno, antes, db>>

\* criar_entidade, line 105: dados = ler_csv(entidade).
criar_jogo_ler(w, req) ==
    /\ trab[w].pc = "parado"
    /\ trab' = [trab EXCEPT ![w] =
                  [pc |-> "lido", req |-> req, item |-> Jogo(req),
                   dados |-> ler_csv(jogos), ret |-> "pendente"]]
    /\ UNCHANGED <<jogos, amigos, emprestimos, chamada, retorno, antes, db>>

\* criar_entidade, lines 108-112: the check on the rows read, the append and
\* escrever_csv of those rows.
criar_jogo_escrever(w) ==
    LET dados == trab[w].dados
        item == trab[w].item
        repetido == tem_id(dados, item.id)
    IN  /\ trab[w].pc = "lido"
        /\ jogos' = IF repetido THEN jogos
                    ELSE escrever_csv(Append(dados, item))
        /\ trab' = [trab EXCEPT ![w] =
                      [@ EXCEPT !.pc = "feito",
                                !.ret = IF repetido THEN "DuplicateId" ELSE "ok"]]
        /\ chamada' = [op |-> "criar_jogo", id |-> item.id,
                       req |-> trab[w].req, trabalhador |-> w]
        /\ UNCHANGED <<amigos, emprestimos, retorno, antes, db>>

\* main.py criar_jogo: the response, 201 or 400.
criar_jogo_responder(w) ==
    /\ trab[w].pc = "feito"
    /\ retorno' = resposta_post(trab[w].ret)
    /\ trab' = [trab EXCEPT ![w] = parado]
    /\ UNCHANGED <<jogos, amigos, emprestimos, chamada, antes, db>>

NextConcorrente ==
    \/ \E w \in Trabalhadores, req \in JogoReqs : criar_jogo_ler(w, req)
    \/ \E w \in Trabalhadores : criar_jogo_escrever(w)
    \/ \E w \in Trabalhadores : criar_jogo_responder(w)

SpecConcorrente == Init /\ [][NextConcorrente]_vars

\* Two creates with distinct ids have both succeeded and w wrote last.
ambos_criaram(w, v) ==
    /\ w # v
    /\ trab[w].pc = "feito" /\ trab[v].pc = "feito"
    /\ trab[w].ret = "ok" /\ trab[v].ret = "ok"
    /\ trab[w].item.id # trab[v].item.id
    /\ chamada.trabalhador = w

\* C20: the creates take no lock, so when two concurrent creates with
\* distinct ids have both reported success the file is what the last
\* writer made of the rows it had read: the other record is in it only if
\* the last writer read the file after the other had written, and is lost
\* otherwise.
C20_LostUpdate ==
    \A w, v \in Trabalhadores :
        ambos_criaram(w, v) =>
            /\ jogos = escrever_csv(Append(trab[w].dados, trab[w].item))
            /\ existe(jogos, trab[w].item.id)
            /\ existe(jogos, trab[v].item.id)
                   <=> tem_id(trab[w].dados, trab[v].item.id)

\* Both creates reported success and the file holds one record only.
C20_Witness ==
    \E w, v \in Trabalhadores :
        /\ ambos_criaram(w, v)
        /\ Len(jogos) = 1
        /\ ~existe(jogos, trab[v].item.id)

----------------------------------------------------------------------------
(* Claims about the responses and the failures of the flat-file store.     *)

\* C21: a request naming a foreign id that does not exist is answered 404,
\* and an invariant violation (a Jogo that is not available, an id already
\* used) is answered 400; in particular POST /emprestimos/ with a jogo_id or
\* an amigo_id that no record has is answered 404.
C21_ReferenceIs404 ==
    chamada.op = "criar_emprestimo" =>
        /\ ( \/ ~existe(antes.jogos, chamada.req.jogo_id)
             \/ ~existe(antes.amigos, chamada.req.amigo_id) )
               => retorno.status = 404
        /\ retorno.ret \in {"NotAvailable", "DuplicateId"}
               => retorno.status = 400

\* C22: for every entity kind, get-by-id right after a successful create
\* returns a record equal, field by field, to the one created; a field left
\* out of the request, such as the email of an Amigo, included.
C22_CreateThenGet ==
    /\ (chamada.op = "criar_jogo" /\ retorno.status = 201)
           => obter(jogos, chamada.id) = Jogo(chamada.req)
    /\ (chamada.op = "criar_amigo" /\ retorno.status = 201)
           => obter(amigos, chamada.id) = Amigo(chamada.req)
    /\ (chamada.op = "criar_emprestimo" /\ retorno.status = 201)
           => obter(emprestimos, chamada.id) = Emprestimo(chamada.req)

\* The last call is an atualizar_emprestimo of a persisted loan that keeps
\* the jogo_id the loan had.
mesmo_jogo ==
    /\ chamada.op = "atualizar_emprestimo"
    /\ existe(antes.emprestimos, chamada.id)
    /\ obter(antes.emprestimos, chamada.id).jogo_id = chamada.req.jogo_id

\* C23: atualizar_emprestimo whose jogo_id is the one the stored loan has
\* only persists the fields of the loan: the jogos file, and with it every
\* Jogo's disponivel, is left as it was, and so is the amigos file.
C23_SameGameKeepsGames ==
    mesmo_jogo =>
        /\ jogos = antes.jogos
        /\ amigos = antes.amigos
        /\ retorno.status = 200 =>
               /\ obter(emprestimos, chamada.req.id) = Emprestimo(chamada.req)
               /\ Len(emprestimos) = Len(antes.emprestimos)

\* A loan is given a new id and keeps its Jogo, which stays unavailable.
C23_Witness ==
    /\ mesmo_jogo
    /\ retorno.status = 200
    /\ chamada.req.id # chamada.id
    /\ emprestimos # antes.emprestimos
    /\ existe(jogos, chamada.req.jogo_id)
    /\ ~obter(jogos, chamada.req.jogo_id).disponivel

\* C24: whenever criar_emprestimo fails, for whichever reason
\* (ReferenceNotFound, NotAvailable, or DuplicateId), the jogos file and the
\* emprestimos file are exactly what they were before the call.
C24_FailedCreateChangesNothing ==
    (chamada.op = "criar_emprestimo" /\ retorno.status # 201) =>
        /\ jogos = antes.jogos
        /\ emprestimos = antes.emprestimos

\* C25: whenever atualizar_emprestimo fails or returns None (loan absent,
\* NotAvailable, or DuplicateId), the jogos file and the emprestimos file
\* are exactly what they were before the call; the old Jogo is not
\* released.
C25_FailedUpdateChangesNothing ==
    (chamada.op = "atualizar_emprestimo" /\ retorno.status # 200) =>
        /\ jogos = antes.jogos
        /\ emprestimos = antes.emprestimos

----------------------------------------------------------------------------
(* The loan operations alone, from a store that has no loan yet: one or    *)
(* two games, all available, and one friend.                               *)

jogo_inicial(i) == Jogo([id |-> i, titulo |-> "a"])

InitEmprestimos ==
    /\ jogos \in {escrever_csv(<<jogo_inicial(1)>>),
                  escrever_csv(<<jogo_inicial(1), jogo_inicial(2)>>)}
    /\ amigos = escrever_csv(<<Amigo([id |-> 1])>>)
    /\ emprestimos = <<>>
    /\ chamada = [op |-> "inicio", id |-> 0, req |-> [id |-> 0]]
    /\ retorno = [ret |-> "ok", status |-> 200]
    /\ antes = arquivos
    /\ db = db_vazio
    /\ trab = [w \in Trabalhadores |-> parado]

NextEmprestimos ==
    \/ \E req \in EmprestimoReqs : criar_emprestimo(req)
    \/ \E emprestimo_id \in EmprestimoIds, req \in EmprestimoReqs :
           atualizar_emprestimo(emprestimo_id, req)
    \/ \E emprestimo_id \in EmprestimoIds : remover_emprestimo(emprestimo_id)

SpecEmprestimos == InitEmprestimos /\ [][NextEmprestimos]_vars

\* C26: from a store with no loans, through criar_emprestimo,
\* atualizar_emprestimo and remover_emprestimo, every Jogo that a persisted
\* Emprestimo names has disponivel = False.
C26_LoanedIsUnavailable ==
    \A i \in DOMAIN emprestimos :
        existe(jogos, emprestimos[i].jogo_id)
            => ~obter(jogos, emprestimos[i].jogo_id).disponivel

\* C27: from a store with no loans and every Jogo available, through
\* criar_emprestimo, atualizar_emprestimo and remover_emprestimo, every Jogo
\* with disponivel = False is named by at least one persisted Emprestimo.
C27_UnavailableIsLoaned ==
    \A j \in DOMAIN jogos :
        ~ler_csv(jogos)[j].disponivel
            => \E i \in DOMAIN emprestimos :
                   emprestimos[i].jogo_id = jogos[j].id

\* C28: through all the operations of the flat-file store, at most one
\* persisted Emprestimo names any given Jogo id, so remover_emprestimo never
\* releases a Jogo that another Emprestimo still names.
C28_OneLoanPerGame ==
    \A i, k \in DOMAIN emprestimos :
        emprestimos[i].jogo_id = emprestimos[k].jogo_id => i = k

----------------------------------------------------------------------------
(* Claims about the atomicity of the blog's handlers.                      *)

\* C29: create_post is all-or-nothing: after any create_post request, a
\* repeated category id included, either the Post row and one link row per
\* supplied category are persisted, or no Post row and no link row is;
\* no Post made by create_post is persisted without its links.
C29_CreatePostAllOrNothing ==
    chamada.op = "create_post" =>
        \/ db = antes
        \/ \E p \in db.posts \ antes.posts :
               /\ db.posts = antes.posts \cup {p}
               /\ db.links = antes.links
                      \cup novos_links(p.id, PostCreate(chamada.req).category_ids)
               /\ links_de(p.id) # {}

\* Two create_like requests in flight, each in its own session.  The
\* handlers of the blog are plain functions, which the framework runs on
\* separate threads; the existence check (lines 19-32) and the insert with
\* its commit (34-36) are separate statements, and the Like table has no
\* unique constraint on (user_id, post_id).
verificados == {w \in Trabalhadores : trab[w].pc = "verificado"}

create_like_verificar(w, req) ==
    LET like == LikeCreate(req)
        user == {u \in db.users : u.id = like.user_id}
        post == {p \in db.posts : p.id = like.post_id}
        existing_like == {l \in db.likes : /\ l.user_id = like.user_id
                                           /\ l.post_id = like.post_id}
        falha ==
            IF user = {} THEN HTTPException(404, "User not found")
            ELSE IF post = {} THEN HTTPException(404, "Post not found")
            ELSE IF existing_like # {}
            THEN HTTPException(400, "This like already exists")
            ELSE resposta(200)
    IN  /\ trab[w].pc = "parado"
        /\ falha.status # 200
             \/ novo_id(db.likes) + Cardinality(verificados) <= MaxLike
        /\ chamada' = [op |-> "create_like", id |-> w, req |-> req]
        /\ IF falha.status # 200
           THEN /\ retorno' = falha
                /\ UNCHANGED trab
           ELSE /\ trab' = [trab EXCEPT ![w] = [pc |-> "verificado",
                                                like |-> like]]
                /\ UNCHANGED retorno
        /\ UNCHANGED <<jogos, amigos, emprestimos, antes, db>>

create_like_inserir(w) ==
    LET like == trab[w].like
        db_like == [id |-> novo_id(db.likes), user_id |-> like.user_id,
                    post_id |-> like.post_id, reaction |-> like.reaction]
    IN  /\ trab[w].pc = "verificado"
        /\ db' = [db EXCEPT !.likes = @ \cup {db_like}]
        /\ antes' = db
        /\ retorno' = resposta(200)
        /\ trab' = [trab EXCEPT ![w] = parado]
        /\ UNCHANGED <<jogos, amigos, emprestimos, chamada>>

NextLikesConcorrente ==
    \/ \E w \in Trabalhadores, req \in LikeCreateReqs :
           create_like_verificar(w, req)
    \/ \E w \in Trabalhadores : create_like_inserir(w)

SpecLikesConcorrente == InitBlog /\ [][NextLikesConcorrente]_vars

\* C30: when two create_like requests for the same (user_id, post_id) run
\* concurrently, at most one of them persists a Like: no interleaving of
\* their checks and inserts leaves two Like rows with the same pair.
C30_NoDuplicateLikeUnderRace ==
    ~ \E l1, l2 \in db.likes :
          /\ l1.id # l2.id
          /\ l1.user_id = l2.user_id
          /\ l1.post_id = l2.post_id
====
